---- MODULE Spec2Model ----
(***************************************************************************)
(* A model of export_albums.py: the export() command, which walks the      *)
(* albums of a Photos library in descending order of name and copies each  *)
(* album's photos (original and edited variant) into one folder per album. *)
(*                                                                         *)
(* Strings are sequences of one-character strings, so that sorting, the    *)
(* regular expression, sanitizing, joining and validating paths are        *)
(* computed character by character, as the program's calls compute them.   *)
(***************************************************************************)
EXTENDS Integers, Sequences, FiniteSets, TLC

\* ------------------------------------------------------------------ bounds
\* Longest album list, longest photo list and number of consecutive runs
\* of the command that the model explores.
MaxAlbums == 2
MaxPhotos == 2
MaxRuns == 2

\* The platform's longest valid file path, scaled down to the model's names.
MaxPathLen == 9

\* -------------------------------------------------------------- characters
\* Code points of the model's alphabet (Python compares strings by code point).
Ord(c) ==
    CASE c = "\t" -> 9
      [] c = " " -> 32
      [] c = "$" -> 36
      [] c = "*" -> 42
      [] c = "." -> 46
      [] c = "/" -> 47
      [] c = "0" -> 48
      [] c = "2" -> 50
      [] c = "M" -> 77
      [] c = "T" -> 84
      [] c = "V" -> 86
      [] c = "^" -> 94
      [] c = "_" -> 95
      [] c = "a" -> 97
      [] c = "b" -> 98
      [] c = "c" -> 99
      [] c = "e" -> 101
      [] c = "f" -> 102
      [] c = "g" -> 103
      [] c = "i" -> 105
      [] c = "l" -> 108
      [] c = "m" -> 109
      [] c = "n" -> 110
      [] c = "p" -> 112
      [] c = "q" -> 113
      [] c = "r" -> 114
      [] c = "x" -> 120
      [] c = "y" -> 121

\* Python's str < str: the first differing character decides, a proper
\* prefix is smaller.
RECURSIVE StrLess(_, _)
StrLess(a, b) ==
    IF b = <<>> THEN FALSE
    ELSE IF a = <<>> THEN TRUE
    ELSE IF a[1] = b[1] THEN StrLess(Tail(a), Tail(b))
    ELSE Ord(a[1]) < Ord(b[1])

\* Python's None (and the empty string): falsy values of p.path_edited.
None == <<>>

\* --------------------------------------------------------- album selection
\* Mutant: the list is sorted ascending (reverse=True forgotten).
RECURSIVE InsertAsc(_, _)
InsertAsc(x, s) ==
    IF s = <<>> THEN <<x>>
    ELSE IF StrLess(x, s[1]) THEN <<x>> \o s
    ELSE <<s[1]>> \o InsertAsc(x, Tail(s))

\* sorted(names, reverse=True), line 46: insertion into a descending list.
RECURSIVE InsertDesc(_, _)
InsertDesc(x, s) ==
    IF s = <<>> THEN <<x>>
    ELSE IF StrLess(s[1], x) THEN <<x>> \o s
    ELSE <<s[1]>> \o InsertDesc(x, Tail(s))

RECURSIVE SortedReverse(_)
SortedReverse(s) ==
    IF s = <<>> THEN <<>>
    ELSE InsertDesc(s[1], SortedReverse(Tail(s)))

\* The compiled pattern matched at the head of text (a backtracking matcher
\* for literals, ".", "x*", "^" and a final "$").
RECURSIVE MatchHere(_, _, _)
MatchHere(re, text, pos) ==
    IF re = <<>> THEN TRUE
    ELSE IF re[1] = "^" THEN pos = 0 /\ MatchHere(Tail(re), text, pos)
    ELSE IF Len(re) >= 2 /\ re[2] = "*" THEN
        \E k \in 0..Len(text) :
            /\ \A i \in 1..k : re[1] = "." \/ re[1] = text[i]
            /\ MatchHere(Tail(Tail(re)), SubSeq(text, k + 1, Len(text)), pos + k)
    ELSE IF re[1] = "$" /\ Len(re) = 1 THEN text = <<>>
    ELSE /\ text # <<>>
         /\ re[1] = "." \/ re[1] = text[1]
         /\ MatchHere(Tail(re), Tail(text), pos + 1)

\* Mutant: re.search in place of re.match, a match starting anywhere in the
\* name.
ReSearch(re, text) ==
    \E k \in 0..Len(text) : MatchHere(re, SubSeq(text, k + 1, Len(text)), k)

\* include_filter_regex.match(album), line 53: a match at the start of the name.
ReMatch(re, text) == MatchHere(re, text, 0)

\* ------------------------------------------------------- destination paths
\* Characters the platform forbids in a file path (control characters).
InvalidChars == {"\t"}

\* sanitize_filepath(album, platform="auto"), line 58: invalid characters
\* are removed.
RECURSIVE sanitize_filepath(_)
sanitize_filepath(s) ==
    IF s = <<>> THEN <<>>
    ELSE IF s[1] \in InvalidChars THEN sanitize_filepath(Tail(s))
    ELSE <<s[1]>> \o sanitize_filepath(Tail(s))

\* str.replace(" ", "_"), line 59.
replace_spaces(s) == [i \in 1..Len(s) |-> IF s[i] = " " THEN "_" ELSE s[i]]

\* os.path.join(a, b), lines 62, 89 and 100.
join(a, b) ==
    IF b # <<>> /\ b[1] = "/" THEN b
    ELSE IF a = <<>> \/ a[Len(a)] = "/" THEN a \o b
    ELSE a \o <<"/">> \o b

\* is_valid_filepath(path, platform="auto"), line 65.
is_valid_filepath(p) ==
    /\ p # <<>>
    /\ Len(p) <= MaxPathLen
    /\ \A i \in 1..Len(p) : p[i] \notin InvalidChars

\* Lines 58-59: the folder name of an album.
AlbumName(album) == replace_spaces(sanitize_filepath(album))

\* Line 62: the destination folder of an album.
DestDir(root, album) == join(root, AlbumName(album))

\* pathlib.Path(p).name, line 87: what follows the last "/".
RECURSIVE PathName(_)
PathName(p) ==
    IF \A i \in 1..Len(p) : p[i] # "/" THEN p
    ELSE PathName(Tail(p))

\* -------------------------------------------------------------- the library
\* A path of the source library: folder d, file name n.
LibPath(d, n) == <<"/", d, "/", n>>

\* The files of the source library that are on disk: those of its folders
\* l, m, n, p and q; its folder x is gone.
SourceFiles ==
    { LibPath("l", "a"), LibPath("l", "b"), LibPath("l", "f"),
      LibPath("m", "a"), LibPath("m", "f"), LibPath("m", "b"),
      LibPath("n", "a"), LibPath("n", "f"), LibPath("n", "b"),
      LibPath("p", "b"), LibPath("p", "f"),
      LibPath("q", "b"), LibPath("q", "g") }

\* The fields of a photo that export() reads (lines 84-107), and the albums
\* that photosdb.photos(albums=[album]) selects it by (line 54).
Photo(m, h, pe, pa, fn) ==
    [ismissing |-> m, hasadjustments |-> h, path_edited |-> pe, path |-> pa,
     filename |-> fn]

\* The photos the model's libraries are built from, each with a path of its
\* own: flagged missing or not, adjusted or not, with or without an edited
\* path, source files on disk or gone, and two stored file names, so that
\* two photos of an album may bear the same name.
PhotoUniverse ==
    { Photo(FALSE, FALSE, None, LibPath("l", "a"), <<"a">>),
      Photo(FALSE, FALSE, None, LibPath("l", "b"), <<"b">>),
      Photo(FALSE, FALSE, None, LibPath("x", "a"), <<"a">>),
      Photo(TRUE, FALSE, None, LibPath("x", "b"), <<"b">>),
      Photo(TRUE, TRUE, LibPath("m", "f"), LibPath("m", "a"), <<"a">>),
      Photo(FALSE, TRUE, LibPath("n", "f"), LibPath("n", "a"), <<"a">>),
      Photo(FALSE, TRUE, LibPath("q", "g"), LibPath("q", "b"), <<"b">>),
      Photo(FALSE, TRUE, LibPath("x", "f"), LibPath("n", "b"), <<"b">>),
      Photo(FALSE, TRUE, LibPath("l", "f"), LibPath("x", "a"), <<"a">>),
      Photo(FALSE, TRUE, None, LibPath("m", "b"), <<"b">>),
      Photo(FALSE, FALSE, LibPath("p", "f"), LibPath("p", "b"), <<"b">>) }

\* Lists of up to MaxPhotos photos, no photo twice.
PhotoLists ==
    { s \in UNION { [1..n -> PhotoUniverse] : n \in 0..MaxPhotos } :
        \A i, j \in 1..Len(s) : i # j => s[i] # s[j] }

Trip == <<"T", "r", "i", "p">>
Trip2 == <<"T", "r", "i", "p", " ", "2">>
Trip20 == <<"T", "r", "i", "p", " ", "2", "0">>
Vac == <<"V", "a", "c">>
MTabY == <<"M", "\t", "y">>

\* Album names: with a space, with a character the platform forbids, and one
\* whose folder path is longer than the platform allows.
AlbumUniverse == { Trip, Trip2, Trip20, Vac, MTabY }

\* --include-filter values: the default ".*", "^Trip", "Trip", "rip" (found
\* inside a name but not at its start), "V" and "Trip$".
Filters ==
    { <<".", "*">>, <<"^", "T", "r", "i", "p">>, <<"T", "r", "i", "p">>,
      <<"r", "i", "p">>, <<"V">>, <<"T", "r", "i", "p", "$">> }

\* EXPORT_PATH values: an existing folder, and one whose name holds a
\* character the platform forbids.
ExportPaths == { <<"/", "e">>, <<"/", "e", "\t">> }

\* How p.export() names the file it writes when it is given no file name, as
\* on lines 96 and 107. The choice is the library's, not export()'s: osxphotos
\* names an edited export after the photo's file name plus a suffix
\* ("derived"); a library that writes the base name of the edited path, the
\* name line 89 looks for, is modelled as well ("stored").
Namings == { "stored", "derived" }

\* photosdb.albums: album names in the library's order, none twice.
AlbumLists ==
    { s \in UNION { [1..n -> AlbumUniverse] : n \in 0..MaxAlbums } :
        \A i, j \in 1..Len(s) : i # j => s[i] # s[j] }

Range(s) == { s[i] : i \in 1..Len(s) }

\* Destinations before the first run: EXPORT_PATH empty, or holding the
\* folder of one album already, or holding a regular file where the folder of
\* one album would go.
Destinations(ep, al) ==
    { [dirs |-> {ep}, files |-> SourceFiles] } \cup
    { [dirs |-> {ep, DestDir(ep, a)}, files |-> SourceFiles] : a \in Range(al) } \cup
    { [dirs |-> {ep}, files |-> SourceFiles \cup {DestDir(ep, a)}] : a \in Range(al) }

\* Libraries that vary the albums: one photo, held by every album.
AlbumInputs ==
    UNION { { [albums |-> al,
               photos |-> << [photo |-> Photo(FALSE, FALSE, None,
                                              LibPath("l", "a"), <<"a">>),
                              albums |-> Range(al)] >>,
               naming |-> "stored", export_path |-> ep, include_filter |-> f,
               fs |-> d] : f \in Filters, d \in Destinations(ep, al) } :
            al \in AlbumLists, ep \in ExportPaths }

\* Libraries that vary the photos: two albums, every photo in Vac and the
\* first one in Trip too; the destination empty, or holding Vac's folder
\* with a file "a" already in it.
PhotoInputs ==
    { [albums |-> <<Trip, Vac>>,
       photos |-> [i \in 1..Len(ph) |->
                     [photo |-> ph[i],
                      albums |-> IF i = 1 THEN {Trip, Vac} ELSE {Vac}]],
       naming |-> nm, export_path |-> <<"/", "e">>,
       include_filter |-> <<".", "*">>, fs |-> d] :
        ph \in PhotoLists,
        nm \in Namings,
        d \in { [dirs |-> { <<"/", "e">> }, files |-> SourceFiles],
                [dirs |-> { <<"/", "e">>, <<"/", "e", "/", "V", "a", "c">> },
                 files |-> SourceFiles \cup
                           { <<"/", "e", "/", "V", "a", "c", "/", "a">> }] } }

Inputs == AlbumInputs \cup PhotoInputs

\* ---------------------------------------------------------------- the state
VARIABLES
    photosdb,        \* the library: albums, photos, and its export naming
    export_path,     \* EXPORT_PATH argument
    include_filter,  \* --include-filter option
    fs,              \* the file system: folders and files
    run,             \* which run of the command this is
    pc,              \* where export() is
    albums,          \* line 46
    ai,              \* position of "for album in albums"
    photos,          \* line 54
    pi,              \* position of "for p in photos_bar"
    dest_dir,        \* line 62
    count,           \* the seven counters of lines 73-79
    out,             \* what click.echo has printed (without --debug)
    log,             \* history: every folder and photo decision taken
    exits,           \* history: the exit code of every finished run
    fs0              \* history: the file system before the first run

vars ==
    <<photosdb, export_path, include_filter, fs, run, pc, albums, ai, photos,
      pi, dest_dir, count, out, log, exits, fs0>>

params == <<photosdb, export_path, include_filter, fs0>>

\* Lines 73-79.
ZeroCount ==
    [copied |-> 0, errors |-> 0, existing |-> 0, missing |-> 0,
     copied_edited |-> 0, errors_edited |-> 0, existing_edited |-> 0]

Init ==
    \E in \in Inputs :
        /\ photosdb = [albums |-> in.albums, photos |-> in.photos, naming |-> in.naming]
        /\ export_path = in.export_path
        /\ include_filter = in.include_filter
        /\ fs = in.fs
        /\ fs0 = in.fs
        /\ run = 1
        /\ pc = "start"
        /\ albums = <<>>
        /\ ai = 1
        /\ photos = <<>>
        /\ pi = 1
        /\ dest_dir = <<>>
        /\ count = ZeroCount
        /\ out = <<>>
        /\ log = <<>>
        /\ exits = <<>>

\* ------------------------------------------------------------ system calls
\* os.path.exists(path), lines 89, 92, 100 and 103.
os_path_exists(path) == path \in fs.dirs \cup fs.files

\* os.path.isdir(path), line 69.
os_path_isdir(path) == path \in fs.dirs

\* photosdb.photos(albums=[album], images=True, movies=True), line 54.
PhotosOf(album) ==
    LET held == SelectSeq(photosdb.photos, LAMBDA e : album \in e.albums)
    IN  [i \in 1..Len(held) |-> held[i].photo]

\* The name p.export(dest_dir, edited=...) gives the file it writes, lines
\* 96 and 107: the call passes no file name, the library chooses it.
ExportedName(p, edited) ==
    IF ~edited THEN p.filename
    ELSE IF photosdb.naming = "stored" THEN PathName(p.path_edited)
    ELSE p.filename \o <<"_", "e">>

\* Line 86: the photo has adjustments and an edited path.
HasEdited(p) == p.hasadjustments /\ p.path_edited # None

\* Lines 87-89: the destination file the edited branch looks for.
EditedTarget(p) == join(dest_dir, PathName(p.path_edited))

\* Lines 99-100: the destination file the original branch looks for.
OriginalTarget(p) == join(dest_dir, p.filename)

Event(album, n, variant, outcome) ==
    [run |-> run, album |-> album, n |-> n, variant |-> variant,
     outcome |-> outcome]

\* ------------------------------------------------------------------ actions
\* Lines 37-49: open the library, sort its albums, compile the filter.
Start ==
    /\ pc = "start"
    /\ albums' = SortedReverse(photosdb.albums)
    /\ ai' = 1
    /\ pc' = "album"
    /\ UNCHANGED <<params, fs, run, photos, pi, dest_dir, count, out, log, exits>>

\* Line 53: an album the filter does not match is passed over.
SkipAlbum ==
    /\ pc = "album"
    /\ ai <= Len(albums)
    /\ ~ReMatch(include_filter, albums[ai])
    /\ ai' = ai + 1
    /\ UNCHANGED <<params, fs, run, pc, albums, photos, pi, dest_dir, count,
                   out, log, exits>>

\* Line 55: the line announcing an album.
Header(album) ==
    [run |-> run, line |-> "album", album |-> album, n |-> Len(PhotosOf(album))]

\* Lines 54-66: the destination path of a matching album is not valid;
\* sys.exit(message) ends the process with exit code 1.
InvalidPath ==
    /\ pc = "album"
    /\ ai <= Len(albums)
    /\ ReMatch(include_filter, albums[ai])
    /\ ~is_valid_filepath(DestDir(export_path, albums[ai]))
    /\ photos' = PhotosOf(albums[ai])
    /\ out' = Append(out, Header(albums[ai]))
    /\ dest_dir' = DestDir(export_path, albums[ai])
    /\ exits' = Append(exits, 1)
    /\ pc' = "done"
    /\ UNCHANGED <<params, fs, run, albums, ai, pi, count, log>>

\* Lines 54-70: the path is valid and is not a folder, but a file of that
\* name exists: os.makedirs raises FileExistsError, which nothing catches,
\* and the process ends with exit code 1.
MakedirsFails ==
    /\ pc = "album"
    /\ ai <= Len(albums)
    /\ ReMatch(include_filter, albums[ai])
    /\ is_valid_filepath(DestDir(export_path, albums[ai]))
    /\ ~os_path_isdir(DestDir(export_path, albums[ai]))
    /\ os_path_exists(DestDir(export_path, albums[ai]))
    /\ photos' = PhotosOf(albums[ai])
    /\ out' = Append(out, Header(albums[ai]))
    /\ dest_dir' = DestDir(export_path, albums[ai])
    /\ exits' = Append(exits, 1)
    /\ pc' = "done"
    /\ UNCHANGED <<params, fs, run, albums, ai, pi, count, log>>

\* Mutant: the counters are set to zero once, before the album loop, and
\* carry from one album into the next.
BeginAlbumKeepingCounts ==
    /\ pc = "album"
    /\ ai <= Len(albums)
    /\ ReMatch(include_filter, albums[ai])
    /\ is_valid_filepath(DestDir(export_path, albums[ai]))
    /\ os_path_isdir(DestDir(export_path, albums[ai]))
         \/ ~os_path_exists(DestDir(export_path, albums[ai]))
    /\ photos' = PhotosOf(albums[ai])
    /\ out' = Append(out, Header(albums[ai]))
    /\ dest_dir' = DestDir(export_path, albums[ai])
    /\ fs' = [fs EXCEPT !.dirs = @ \cup {DestDir(export_path, albums[ai])}]
    /\ log' = Append(log, Event(albums[ai], 0, "folder",
                     IF os_path_isdir(DestDir(export_path, albums[ai]))
                     THEN "present" ELSE "created"))
    /\ pi' = 1
    /\ pc' = "photo"
    /\ UNCHANGED <<params, run, albums, ai, exits, count>>

\* Lines 54-82: a matching album with a valid path: its folder is created if
\* it is not there, the counters start at zero, the photo loop begins.
BeginAlbum ==
    /\ pc = "album"
    /\ ai <= Len(albums)
    /\ ReMatch(include_filter, albums[ai])
    /\ is_valid_filepath(DestDir(export_path, albums[ai]))
    /\ os_path_isdir(DestDir(export_path, albums[ai]))
         \/ ~os_path_exists(DestDir(export_path, albums[ai]))
    /\ photos' = PhotosOf(albums[ai])
    /\ out' = Append(out, Header(albums[ai]))
    /\ dest_dir' = DestDir(export_path, albums[ai])
    /\ fs' = [fs EXCEPT !.dirs = @ \cup {DestDir(export_path, albums[ai])}]
    /\ log' = Append(log, Event(albums[ai], 0, "folder",
                     IF os_path_isdir(DestDir(export_path, albums[ai]))
                     THEN "present" ELSE "created"))
    /\ count' = ZeroCount
    /\ pi' = 1
    /\ pc' = "photo"
    /\ UNCHANGED <<params, run, albums, ai, exits>>

\* Lines 84 and 109-111: a photo flagged missing is only counted.
SkipMissing ==
    /\ pc = "photo"
    /\ pi <= Len(photos)
    /\ photos[pi].ismissing
    /\ count' = [count EXCEPT !.missing = @ + 1]
    /\ log' = Append(log, Event(albums[ai], pi, "none", "missing"))
    /\ pi' = pi + 1
    /\ UNCHANGED <<params, fs, run, pc, albums, ai, photos, dest_dir, out, exits>>

\* Mutant: the edited branch does not look at the missing flag.
AtEditedAnyFlag ==
    /\ pc = "photo"
    /\ pi <= Len(photos)
    /\ HasEdited(photos[pi])

\* Lines 84-86: the loop body is at the edited branch of a photo that has one.
AtEdited ==
    /\ pc = "photo"
    /\ pi <= Len(photos)
    /\ ~photos[pi].ismissing
    /\ HasEdited(photos[pi])

\* Lines 89-91: the edited file's name is already in the folder.
EditedExisting ==
    /\ AtEdited
    /\ os_path_exists(EditedTarget(photos[pi]))
    /\ count' = [count EXCEPT !.existing_edited = @ + 1]
    /\ log' = Append(log, Event(albums[ai], pi, "edited", "existing"))
    /\ pc' = "original"
    /\ UNCHANGED <<params, fs, run, albums, ai, photos, pi, dest_dir, out, exits>>

\* Lines 92-94: the edited source file is not on disk.
EditedError ==
    /\ AtEdited
    /\ ~os_path_exists(EditedTarget(photos[pi]))
    /\ ~os_path_exists(photos[pi].path_edited)
    /\ count' = [count EXCEPT !.errors_edited = @ + 1]
    /\ log' = Append(log, Event(albums[ai], pi, "edited", "error"))
    /\ pc' = "original"
    /\ UNCHANGED <<params, fs, run, albums, ai, photos, pi, dest_dir, out, exits>>

\* Mutant: the original branch hangs on the edited one as a further elif,
\* so that a copied edited file ends the photo.
EditedCopyEndsPhoto ==
    /\ AtEdited
    /\ ~os_path_exists(EditedTarget(photos[pi]))
    /\ os_path_exists(photos[pi].path_edited)
    /\ fs' = [fs EXCEPT !.files = @ \cup {join(dest_dir, ExportedName(photos[pi], TRUE))}]
    /\ count' = [count EXCEPT !.copied_edited = @ + 1]
    /\ log' = Append(log, Event(albums[ai], pi, "edited", "copied"))
    /\ pi' = pi + 1
    /\ pc' = "photo"
    /\ UNCHANGED <<params, run, albums, ai, photos, dest_dir, out, exits>>

\* Lines 95-97: the edited file is exported.
EditedCopy ==
    /\ AtEdited
    /\ ~os_path_exists(EditedTarget(photos[pi]))
    /\ os_path_exists(photos[pi].path_edited)
    /\ fs' = [fs EXCEPT !.files = @ \cup {join(dest_dir, ExportedName(photos[pi], TRUE))}]
    /\ count' = [count EXCEPT !.copied_edited = @ + 1]
    /\ log' = Append(log, Event(albums[ai], pi, "edited", "copied"))
    /\ pc' = "original"
    /\ UNCHANGED <<params, run, albums, ai, photos, pi, dest_dir, out, exits>>

\* Lines 98-99: the loop body is at the original branch, after the edited
\* branch or directly when the photo has no edited variant.
AtOriginal ==
    /\ pi <= Len(photos)
    /\ \/ pc = "original"
       \/ pc = "photo" /\ ~photos[pi].ismissing /\ ~HasEdited(photos[pi])

\* Lines 100-102: the original's file name is already in the folder.
OriginalExisting ==
    /\ AtOriginal
    /\ os_path_exists(OriginalTarget(photos[pi]))
    /\ count' = [count EXCEPT !.existing = @ + 1]
    /\ log' = Append(log, Event(albums[ai], pi, "original", "existing"))
    /\ pi' = pi + 1
    /\ pc' = "photo"
    /\ UNCHANGED <<params, fs, run, albums, ai, photos, dest_dir, out, exits>>

\* Lines 103-105: the original source file is not on disk.
OriginalError ==
    /\ AtOriginal
    /\ ~os_path_exists(OriginalTarget(photos[pi]))
    /\ ~os_path_exists(photos[pi].path)
    /\ count' = [count EXCEPT !.errors = @ + 1]
    /\ log' = Append(log, Event(albums[ai], pi, "original", "error"))
    /\ pi' = pi + 1
    /\ pc' = "photo"
    /\ UNCHANGED <<params, fs, run, albums, ai, photos, dest_dir, out, exits>>

\* Mutant: the original is exported without looking for its source file.
OriginalCopyUnchecked ==
    /\ AtOriginal
    /\ ~os_path_exists(OriginalTarget(photos[pi]))
    /\ fs' = [fs EXCEPT !.files = @ \cup {join(dest_dir, ExportedName(photos[pi], FALSE))}]
    /\ count' = [count EXCEPT !.copied = @ + 1]
    /\ log' = Append(log, Event(albums[ai], pi, "original", "copied"))
    /\ pi' = pi + 1
    /\ pc' = "photo"
    /\ UNCHANGED <<params, run, albums, ai, photos, dest_dir, out, exits>>

\* Mutant: an exported original is counted as existing.
OriginalCopyMiscounted ==
    /\ AtOriginal
    /\ ~os_path_exists(OriginalTarget(photos[pi]))
    /\ os_path_exists(photos[pi].path)
    /\ fs' = [fs EXCEPT !.files = @ \cup {join(dest_dir, ExportedName(photos[pi], FALSE))}]
    /\ count' = [count EXCEPT !.existing = @ + 1]
    /\ log' = Append(log, Event(albums[ai], pi, "original", "copied"))
    /\ pi' = pi + 1
    /\ pc' = "photo"
    /\ UNCHANGED <<params, run, albums, ai, photos, dest_dir, out, exits>>

\* Lines 106-108: the original file is exported.
OriginalCopy ==
    /\ AtOriginal
    /\ ~os_path_exists(OriginalTarget(photos[pi]))
    /\ os_path_exists(photos[pi].path)
    /\ fs' = [fs EXCEPT !.files = @ \cup {join(dest_dir, ExportedName(photos[pi], FALSE))}]
    /\ count' = [count EXCEPT !.copied = @ + 1]
    /\ log' = Append(log, Event(albums[ai], pi, "original", "copied"))
    /\ pi' = pi + 1
    /\ pc' = "photo"
    /\ UNCHANGED <<params, run, albums, ai, photos, dest_dir, out, exits>>

\* Lines 113-114: the two summary lines of an album; the loop moves on.
Summary ==
    /\ pc = "photo"
    /\ pi > Len(photos)
    /\ out' = out \o
         << [run |-> run, line |-> "original", album |-> albums[ai],
             copied |-> count.copied, existing |-> count.existing,
             errors |-> count.errors, missing |-> count.missing],
            [run |-> run, line |-> "edited", album |-> albums[ai],
             copied |-> count.copied_edited, existing |-> count.existing_edited,
             errors |-> count.errors_edited, missing |-> 0] >>
    /\ ai' = ai + 1
    /\ pc' = "album"
    /\ UNCHANGED <<params, fs, run, albums, photos, pi, dest_dir, count, log, exits>>

\* Line 52 exhausted: export() returns and the process exits with code 0.
Finish ==
    /\ pc = "album"
    /\ ai > Len(albums)
    /\ exits' = Append(exits, 0)
    /\ pc' = "done"
    /\ UNCHANGED <<params, fs, run, albums, ai, photos, pi, dest_dir, count, out, log>>

\* The command is run again on the same library and the same destination.
Rerun ==
    /\ pc = "done"
    /\ run < MaxRuns
    /\ run' = run + 1
    /\ pc' = "start"
    /\ albums' = <<>>
    /\ ai' = 1
    /\ photos' = <<>>
    /\ pi' = 1
    /\ dest_dir' = <<>>
    /\ count' = ZeroCount
    /\ UNCHANGED <<params, fs, out, log, exits>>

Next ==
    \/ Start
    \/ SkipAlbum
    \/ InvalidPath
    \/ MakedirsFails
    \/ BeginAlbum
    \/ SkipMissing
    \/ EditedExisting
    \/ EditedError
    \/ EditedCopy
    \/ OriginalExisting
    \/ OriginalError
    \/ OriginalCopy
    \/ Summary
    \/ Finish
    \/ Rerun

Spec == Init /\ [][Next]_vars

\* ================================================================== claims
Last(s) == s[Len(s)]

\* The runs that have ended.
Finished == 1..Len(exits)

\* The folder and photo decisions of run r for album a, in the order taken.
EventsOf(r, a) == SelectSeq(log, LAMBDA e : e.run = r /\ e.album = a)

\* Run r created the folder of album a, or found it there.
FolderSeen(r, a) == \E i \in 1..Len(log) :
    log[i].run = r /\ log[i].album = a /\ log[i].variant = "folder"

\* ---------------------------------------------------------------------- C7
C7_OutShape ==
    \A j \in 1..Len(out) :
        /\ out[j].line = "album" /\ j > 1 /\ out[j - 1].run = out[j].run
             => out[j - 1].line = "edited"
        /\ out[j].line = "original"
             => /\ j > 1
                /\ out[j - 1].line = "album"
                /\ out[j - 1].run = out[j].run
                /\ out[j - 1].album = out[j].album
        /\ out[j].line = "edited"
             => /\ j > 1
                /\ out[j - 1].line = "original"
                /\ out[j - 1].run = out[j].run
                /\ out[j - 1].album = out[j].album

C7_Descending ==
    \A i, j \in 1..Len(out) :
        i < j /\ out[i].run = out[j].run
              /\ out[i].line = "album" /\ out[j].line = "album"
            => StrLess(out[j].album, out[i].album)

C7_Step ==
    log' # log =>
        /\ out' # <<>>
        /\ Last(out').line = "album"
        /\ Last(out').run = Last(log').run
        /\ Last(out').album = Last(log').album

\* C7: within a run the albums are announced in strictly descending order
\* of name (each announced name is smaller than every name announced before
\* it), an album's two summary lines follow its announcement before any
\* other album is announced, and every folder and photo decision is taken
\* while the album it belongs to is the last one announced and its summary
\* is not yet printed.
C7_DescendingSequential ==
    [](C7_OutShape /\ C7_Descending) /\ [][C7_Step]_vars

\* C7 witness: a run that ended normally after exporting two albums.
C7_Witness ==
    /\ pc = "done"
    /\ Last(exits) = 0
    /\ \E i, j \in 1..Len(out) :
        /\ i < j
        /\ out[i].line = "edited" /\ out[j].line = "edited"
        /\ out[i].run = run /\ out[j].run = run

\* ---------------------------------------------------------------------- C3
StartsWith(name, l) == Len(name) >= Len(l) /\ SubSeq(name, 1, Len(l)) = l

\* What "the name matches the filter from its start" means for the model's
\* filters: ".*" takes every name, a literal (with or without "^") takes the
\* names that begin with it, a literal followed by "$" takes that name only.
PrefixMatches(f, name) ==
    LET lit == SelectSeq(f, LAMBDA c : c \notin {"^", "$"})
    IN  IF f = <<".", "*">> THEN TRUE
        ELSE IF Last(f) = "$" THEN name = lit
        ELSE StartsWith(name, lit)

\* Run r was ended by os.makedirs failing on a valid path.
MakedirsFailed(r) ==
    /\ exits[r] = 1
    /\ \E j \in 1..Len(out) :
        /\ out[j].run = r /\ out[j].line = "album"
        /\ \A k \in (j + 1)..Len(out) : out[k].run # r
        /\ is_valid_filepath(DestDir(export_path, out[j].album))

Matching == { a \in Range(photosdb.albums) : PrefixMatches(include_filter, a) }

\* The matching albums whose destination path is not valid.
Invalid == { a \in Matching : ~is_valid_filepath(DestDir(export_path, a)) }

\* Run r announced album a.
Announced(r, a) == \E j \in 1..Len(out) :
    out[j].run = r /\ out[j].line = "album" /\ out[j].album = a

\* C4 as stated: a run that meets a matching album with an invalid
\* destination path ends with a non-zero exit code, having created no folder
\* and copied nothing for that album and having processed no album after it;
\* every other run ends with exit code 0.
C4_ExitCodes ==
    \A r \in Finished :
        IF Invalid = {} THEN exits[r] = 0
        ELSE /\ exits[r] # 0
             /\ \A a \in Invalid :
                 /\ EventsOf(r, a) = <<>>
                 /\ \A b \in Range(photosdb.albums) :
                     StrLess(b, a) => EventsOf(r, b) = <<>> /\ ~Announced(r, b)

\* C4, the part the code keeps: the abort on an invalid path itself. The exit
\* code is 0 unless the run met an invalid path or a failed folder creation.
C4_InvalidPathIsFatal ==
    \A r \in Finished :
        /\ Invalid # {} =>
             /\ exits[r] # 0
             /\ \A a \in Invalid :
                 /\ EventsOf(r, a) = <<>>
                 /\ \A b \in Range(photosdb.albums) :
                     StrLess(b, a) => EventsOf(r, b) = <<>> /\ ~Announced(r, b)
        /\ Invalid = {} /\ ~MakedirsFailed(r) => exits[r] = 0

\* ---------------------------------------------------------------------- C5
\* How many decisions of the given variants run r took for photo n of album a.
Decisions(r, a, n, variants) ==
    Cardinality({ i \in 1..Len(log) :
        /\ log[i].run = r /\ log[i].album = a /\ log[i].n = n
        /\ log[i].variant \in variants })

\* C5 as stated, for the runs that have ended: when every matching album has
\* a valid destination path the run ended normally, having evaluated every
\* photo of every matching album exactly once for that album.
C5_EndsNormally ==
    \A r \in Finished : Invalid = {} =>
        /\ exits[r] = 0
        /\ \A a \in Matching : \A n \in 1..Len(PhotosOf(a)) :
            Decisions(r, a, n, {"none", "original"}) = 1

\* C5, the part the code keeps: no decision about a photo ends the run (a
\* run ends early only where an album begins), and a run that ended normally
\* evaluated every photo of every matching album exactly once for that album.
C5_PhotosNeverAbort ==
    /\ [][exits' # exits /\ Last(exits') # 0 => pc = "album"]_vars
    /\ [](\A r \in Finished : exits[r] = 0 =>
            \A a \in Matching : \A n \in 1..Len(PhotosOf(a)) :
                Decisions(r, a, n, {"none", "original"}) = 1)

\* ---------------------------------------------------------------------- C1
\* The summary line of the given kind that run r printed for album a.
SummaryOf(r, a, kind) ==
    CHOOSE l \in Range(out) : l.run = r /\ l.album = a /\ l.line = kind

Summarised(r, a) == \E l \in Range(out) :
    l.run = r /\ l.album = a /\ l.line = "edited"

\* C1 as stated (its first half): after a run that ended normally, a second
\* run over the same library and destination copies nothing, original or
\* edited, in any album.
C1_SecondRunCopiesNothing ==
    \A r \in Finished : r > 1 /\ exits[r - 1] = 0 =>
        \A a \in Range(photosdb.albums) : Summarised(r, a) =>
            /\ SummaryOf(r, a, "original").copied = 0
            /\ SummaryOf(r, a, "edited").copied = 0

\* C1 where the library writes each file under the name export() looks for:
\* the second run copies nothing, and counts as existing at least the
\* variants that the first run copied or counted as existing.
C1_StoredNamesIdempotent ==
    photosdb.naming = "stored" =>
        \A r \in Finished : r > 1 /\ exits[r - 1] = 0 =>
            \A a \in Range(photosdb.albums) : Summarised(r, a) =>
                /\ SummaryOf(r, a, "original").copied = 0
                /\ SummaryOf(r, a, "edited").copied = 0
                /\ SummaryOf(r, a, "original").existing >=
                     SummaryOf(r - 1, a, "original").copied
                       + SummaryOf(r - 1, a, "original").existing
                /\ SummaryOf(r, a, "edited").existing >=
                     SummaryOf(r - 1, a, "edited").copied
                       + SummaryOf(r - 1, a, "edited").existing

\* ------------------------------------------------------- photo decisions
\* export() is inside the loop body of photo photos[pi].
InPhoto == pc \in {"photo", "original"} /\ pi <= Len(photos)

\* The three-way decision of lines 89-97 and 100-108.
Decision(there, source) ==
    IF there THEN "existing" ELSE IF ~source THEN "error" ELSE "copied"

OriginalCounts(c) == <<c.copied, c.existing, c.errors, c.missing>>

EditedCounts(c) == <<c.copied_edited, c.existing_edited, c.errors_edited>>

\* ---------------------------------------------------------------------- C9
\* One step of export(), seen from the copies it performs.
C9_Step ==
    LET wrote == fs'.files # fs.files
        orig == count'.copied > count.copied
        edit == count'.copied_edited > count.copied_edited
    IN  /\ wrote \/ orig \/ edit =>
            /\ InPhoto
            /\ ~photos[pi].ismissing
            /\ orig # edit
            /\ count'.copied + count'.copied_edited
                 = count.copied + count.copied_edited + 1
        /\ orig =>
            /\ join(dest_dir, photos[pi].filename) \notin fs.dirs \cup fs.files
            /\ photos[pi].path \in fs.dirs \cup fs.files
        /\ edit =>
            /\ join(dest_dir, PathName(photos[pi].path_edited))
                 \notin fs.dirs \cup fs.files
            /\ photos[pi].path_edited \in fs.dirs \cup fs.files
        /\ InPhoto /\ photos[pi].ismissing /\ vars' # vars =>
            /\ fs' = fs
            /\ count' = [count EXCEPT !.missing = @ + 1]
            /\ pi' = pi + 1

\* C9: a step that writes a file or raises a copied counter is taken inside
\* the loop body of a photo that is not flagged missing; it raises exactly
\* one of the two copied counters by one; the original is copied only when
\* no file named by the stored filename is in the album's folder and the
\* original's source is on disk, the edited variant only when no file named
\* by the base name of the edited path is in the folder and the edited
\* source is on disk. The step taken for a photo flagged missing writes
\* nothing and raises the missing counter alone.
C9_CopyGuard == [][C9_Step]_vars

\* C9 witness: one run has copied an original, copied an edited variant and
\* passed over a photo flagged missing whose files are on disk.
C9_Witness ==
    /\ \E i \in 1..Len(log) :
        log[i].run = run /\ log[i].variant = "original" /\ log[i].outcome = "copied"
    /\ \E i \in 1..Len(log) :
        log[i].run = run /\ log[i].variant = "edited" /\ log[i].outcome = "copied"
    /\ \E i \in 1..Len(log) :
        /\ log[i].run = run /\ log[i].outcome = "missing"
        /\ os_path_exists(PhotosOf(log[i].album)[log[i].n].path)

\* ---------------------------------------------------------------------- C2
\* The photo a decision was about.
PhotoOf(e) == PhotosOf(e.album)[e.n]

\* C2 as stated: whenever the recorded path of a photo (of its edited
\* variant) is not on disk, the decision taken for it is "error", whatever
\* its missing flag.
C2_AbsentSourceIsError ==
    \A i \in 1..Len(log) : log[i].variant # "folder" =>
        /\ log[i].variant \in {"none", "original"}
             /\ ~os_path_exists(PhotoOf(log[i]).path)
             => log[i].outcome = "error"
        /\ log[i].variant = "edited"
             /\ ~os_path_exists(PhotoOf(log[i]).path_edited)
             => log[i].outcome = "error"

C2_Step ==
    InPhoto /\ log' # log =>
        LET p == photos[pi]
            e == Last(log')
        IN  /\ p.ismissing =>
                /\ e.outcome = "missing"
                /\ fs' = fs
                /\ count' = [count EXCEPT !.missing = @ + 1]
            /\ e.variant = "original" /\ ~os_path_exists(p.path) =>
                /\ fs' = fs
                /\ IF os_path_exists(join(dest_dir, p.filename))
                   THEN e.outcome = "existing"
                        /\ count' = [count EXCEPT !.existing = @ + 1]
                   ELSE e.outcome = "error"
                        /\ count' = [count EXCEPT !.errors = @ + 1]
            /\ e.variant = "edited" /\ ~os_path_exists(p.path_edited) =>
                /\ fs' = fs
                /\ IF os_path_exists(join(dest_dir, PathName(p.path_edited)))
                   THEN e.outcome = "existing"
                        /\ count' = [count EXCEPT !.existing_edited = @ + 1]
                   ELSE e.outcome = "error"
                        /\ count' = [count EXCEPT !.errors_edited = @ + 1]

\* C2 amended: for a photo that is not flagged missing, a variant whose
\* recorded source path is not on disk is never copied; it is counted as an
\* error (errors, or errors-edited), unless a file of its destination name is
\* already in the album's folder, and then it is counted as existing. A photo
\* flagged missing is counted as missing only, whether or not its recorded
\* path is on disk.
C2_AbsentSourceNeverCopied == [][C2_Step]_vars

\* C2 witness: originals with an absent source counted as error and as
\* existing, and an edited variant with an absent source counted as error.
C2_Witness ==
    /\ \E i \in 1..Len(log) :
        /\ log[i].variant = "original" /\ log[i].outcome = "error"
        /\ ~os_path_exists(PhotoOf(log[i]).path)
    /\ \E i \in 1..Len(log) :
        /\ log[i].variant = "original" /\ log[i].outcome = "existing"
        /\ ~os_path_exists(PhotoOf(log[i]).path)
    /\ \E i \in 1..Len(log) :
        /\ log[i].variant = "edited" /\ log[i].outcome = "error"
        /\ ~os_path_exists(PhotoOf(log[i]).path_edited)

\* ---------------------------------------------------------------------- C6
C6_Step ==
    /\ InPhoto /\ ~photos[pi].ismissing /\ log' # log =>
        LET p == photos[pi]
            e == Last(log')
            adjusted == p.hasadjustments /\ p.path_edited # None
        IN  /\ e.run = run /\ e.album = albums[ai] /\ e.n = pi
            /\ e.variant \in {"edited", "original"}
            /\ e.variant = "edited" <=> adjusted /\ pc = "photo"
            /\ pc = "original" => adjusted
            /\ e.variant = "edited" =>
                /\ e.outcome =
                     Decision(os_path_exists(join(dest_dir, PathName(p.path_edited))),
                              os_path_exists(p.path_edited))
                /\ OriginalCounts(count') = OriginalCounts(count)
                /\ pc' = "original" /\ pi' = pi
                /\ join(dest_dir, p.filename) \in fs'.dirs \cup fs'.files
                     <=> os_path_exists(join(dest_dir, p.filename))
            /\ e.variant = "original" =>
                /\ e.outcome =
                     Decision(os_path_exists(join(dest_dir, p.filename)),
                              os_path_exists(p.path))
                /\ EditedCounts(count') = EditedCounts(count)
                /\ pc' = "photo" /\ pi' = pi + 1
    /\ pc = "photo" /\ pi > Len(photos) /\ out' # out =>
        \A n \in 1..Len(photos) : ~photos[n].ismissing =>
            /\ Decisions(run, albums[ai], n, {"original"}) = 1
            /\ Decisions(run, albums[ai], n, {"edited"}) =
                 IF photos[n].hasadjustments /\ photos[n].path_edited # None
                 THEN 1 ELSE 0

\* C6: for a photo not flagged missing, the first decision is about the
\* edited variant exactly when the photo has adjustments and an edited path;
\* it is the three-way decision on the edited file's name and source, changes
\* no original counter and no file of the original's name, and is followed by
\* the decision about the original. The decision about the original is the
\* three-way decision on the stored filename and the original's source,
\* whatever the edited decision was, and changes no edited counter. When the
\* album's summary is printed every such photo has had exactly one decision
\* about its original and one or none about its edited variant.
C6_VariantsIndependent == [][C6_Step]_vars

\* The outcomes run r recorded for the edited variant and the original of
\* photo n of album a.
Pair(r, a, n) ==
    LET ev == SelectSeq(EventsOf(r, a), LAMBDA e : e.n = n)
    IN  IF Len(ev) = 2 THEN <<ev[1].outcome, ev[2].outcome>> ELSE <<>>

\* C6 witness: in one album of one run, one photo had its edited variant
\* copied and its original counted as an error, another its edited variant
\* counted as an error and its original copied.
C6_Witness ==
    \E a \in Range(photosdb.albums) :
        \E n, m \in 1..Len(PhotosOf(a)) :
            /\ Pair(run, a, n) = <<"copied", "error">>
            /\ Pair(run, a, m) = <<"error", "copied">>

\* ---------------------------------------------------------------------- C8
\* The files directly inside folder d of file system f.
FilesIn(f, d) ==
    { x \in f.files :
        /\ Len(x) > Len(d) + 1
        /\ SubSeq(x, 1, Len(d)) = d
        /\ x[Len(d) + 1] = "/"
        /\ \A i \in (Len(d) + 2)..Len(x) : x[i] # "/" }

\* The variants of the photos of album a: every original, and the edited
\* variant of the photos that have adjustments and an edited path.
Variants(a) ==
    { <<n, FALSE>> : n \in 1..Len(PhotosOf(a)) } \cup
    { <<n, TRUE>> : n \in { m \in 1..Len(PhotosOf(a)) :
                            /\ PhotosOf(a)[m].hasadjustments
                            /\ PhotosOf(a)[m].path_edited # None } }

\* The name export() looks for in the folder before copying variant v.
LookedFor(a, v) ==
    IF v[2] THEN PathName(PhotosOf(a)[v[1]].path_edited)
    ELSE PhotosOf(a)[v[1]].filename

\* The names the files of album a are written under are pairwise distinct,
\* and none is the name another variant is looked for under.
DistinctNames(a) ==
    \A v, w \in Variants(a) : v # w =>
        /\ ExportedName(PhotosOf(a)[v[1]], v[2]) # ExportedName(PhotosOf(a)[w[1]], w[2])
        /\ ExportedName(PhotosOf(a)[v[1]], v[2]) # LookedFor(a, w)

\* Album a has no photo flagged missing, all its source files are on disk,
\* and its folder held no file before the first run.
CleanAlbum(a) ==
    /\ \A n \in 1..Len(PhotosOf(a)) :
        /\ ~PhotosOf(a)[n].ismissing
        /\ os_path_exists(PhotosOf(a)[n].path)
    /\ \A v \in Variants(a) :
        v[2] => os_path_exists(PhotosOf(a)[v[1]].path_edited)
    /\ FilesIn(fs0, DestDir(export_path, a)) = {}

\* What C8 says of album a once the first run has printed its summary.
AllCopied(a) ==
    LET n == Len(PhotosOf(a))
        k == Cardinality(Variants(a)) - n
    IN  /\ Cardinality(FilesIn(fs, DestDir(export_path, a))) = n + k
        /\ SummaryOf(1, a, "original") =
             [run |-> 1, line |-> "original", album |-> a, copied |-> n,
              existing |-> 0, errors |-> 0, missing |-> 0]
        /\ SummaryOf(1, a, "edited") =
             [run |-> 1, line |-> "edited", album |-> a, copied |-> k,
              existing |-> 0, errors |-> 0, missing |-> 0]

\* C8 as stated: an album of n photos, none flagged missing, all sources on
\* disk, k of them adjusted with an edited path, exported into an empty
\* folder: the folder holds n + k files and the summaries read Copied(n)
\* Existing(0) Errors(0) Missing(0) and Copied(k) Existing(0) Errors(0).
C8_AllCopied ==
    \A a \in Range(photosdb.albums) :
        run = 1 /\ Summarised(1, a) /\ CleanAlbum(a) => AllCopied(a)

\* C8 amended: the same, for an album whose n + k files are written under
\* pairwise distinct names, none of them the name another variant is looked
\* for under.
C8_AllCopiedDistinct ==
    \A a \in Range(photosdb.albums) :
        run = 1 /\ Summarised(1, a) /\ CleanAlbum(a) /\ DistinctNames(a)
            => AllCopied(a)

\* C8 witness: the first run has exported such an album of two photos, one
\* of them with an edited variant, and its folder holds three files.
C8_Witness ==
    \E a \in Range(photosdb.albums) :
        /\ run = 1 /\ Summarised(1, a) /\ CleanAlbum(a) /\ DistinctNames(a)
        /\ Len(PhotosOf(a)) = 2
        /\ Cardinality(Variants(a)) = 3
        /\ Cardinality(FilesIn(fs, DestDir(export_path, a))) = 3

\* --------------------------------------------------------------------- C10
\* The counters that the decisions of run r for album a add up to.
Tally(r, a) ==
    LET n(variant, outcome) ==
            Cardinality({ i \in 1..Len(log) :
                /\ log[i].run = r /\ log[i].album = a
                /\ log[i].variant = variant /\ log[i].outcome = outcome })
    IN  [copied |-> n("original", "copied"), errors |-> n("original", "error"),
         existing |-> n("original", "existing"), missing |-> n("none", "missing"),
         copied_edited |-> n("edited", "copied"),
         errors_edited |-> n("edited", "error"),
         existing_edited |-> n("edited", "existing")]

\* C10: inside an album the counters are the tally of the decisions taken for
\* that album in that run, so they start at zero and nothing carries over;
\* so far every photo passed has one original-side decision (copied,
\* existing, error or missing) and at most one edited-side decision. In every
\* summary printed, copied + existing + errors + missing is the number of
\* photos of the album, missing is the number of its photos flagged missing,
\* and copied-edited + existing-edited + errors-edited is the number of its
\* photos not flagged missing that have adjustments and an edited path.
C10_CounterPartition ==
    /\ pc \in {"photo", "original"} =>
        /\ count = Tally(run, albums[ai])
        /\ \A n \in 1..Len(photos) :
            /\ Decisions(run, albums[ai], n, {"none", "original"})
                 = IF n < pi THEN 1 ELSE 0
            /\ Decisions(run, albums[ai], n, {"edited"}) <= 1
    /\ \A j \in 1..Len(out) :
        LET l == out[j]
            ph == PhotosOf(l.album)
        IN  /\ l.line = "original" =>
                /\ l.copied + l.existing + l.errors + l.missing = Len(ph)
                /\ l.missing = Cardinality({ n \in 1..Len(ph) : ph[n].ismissing })
            /\ l.line = "edited" =>
                l.copied + l.existing + l.errors =
                    Cardinality({ n \in 1..Len(ph) :
                        /\ ~ph[n].ismissing
                        /\ ph[n].hasadjustments
                        /\ ph[n].path_edited # None })

\* C10 witness: one run has printed the summaries of two albums, the
\* earlier one counting more photos than the later one.
C10_Witness ==
    \E i, j \in 1..Len(out) :
        /\ i < j
        /\ out[i].run = out[j].run
        /\ out[i].line = "original" /\ out[j].line = "original"
        /\ out[j].copied + out[j].existing + out[j].errors + out[j].missing > 0
        /\ out[i].copied + out[i].existing + out[i].errors + out[i].missing
             > out[j].copied + out[j].existing + out[j].errors + out[j].missing
        /\ out[i].missing > 0

====
